---- MODULE Spec2Model ----
(***************************************************************************)
(* Model of redis-mnist-vector-search (src/main.go): main creates the      *)
(* index, StoreData ingests mnist_train.csv row by row with JSON.SET,      *)
(* SearchData runs one KNN-1 FT.SEARCH per row of mnist_test.csv and       *)
(* prints accuracy and latency statistics.                                 *)
(***************************************************************************)
EXTENDS Integers, Sequences, FiniteSets, TLC

(***************************************************************************)
(* Bounds of the model.                                                    *)
(***************************************************************************)
\* rows in mnist_train.csv
MaxTrainRows == 2
\* rows in mnist_test.csv
MaxTestRows == 3
\* the index dimension (DIM 784 in CreateIndex), scaled down
Dim == 1

(***************************************************************************)
(* Program constants.                                                      *)
(***************************************************************************)
\* main: minDuration = 999999
InitMinDuration == 999999
\* main: maxDuration = 0
InitMaxDuration == 0
\* raw intensities are divided by 255.0
PixelScale == 255
\* float32 carries a 24 bit significand: 2^23 <= m < 2^24
MantBits == 23

None == "none"
\* a float32 not yet computed
NoValue == <<>>

(***************************************************************************)
(* Integer helpers.                                                        *)
(***************************************************************************)
Pow2(n) == 2 ^ n

Abs(x) == IF x < 0 THEN -x ELSE x

\* Go's integer division truncates toward zero
GoDiv(a, b) ==
  IF (a >= 0) = (b > 0) THEN Abs(a) \div Abs(b) ELSE -(Abs(a) \div Abs(b))

\* <<q, r>> with a * b = q * c + r and 0 <= r < c, for (a % c) * b < 2^31: the
\* product a * b itself is never formed
MulDiv(a, b, c) ==
  LET low == (a % c) * b
  IN  <<(a \div c) * b + (low \div c), low % c>>

\* <<q, r>> with a * b = q * 2^t + r and 0 <= r < 2^t, for a < 2^24,
\* b < 2^19 and 12 <= t <= 25: a is multiplied in two 12 bit halves
HalfBits == 12

MulShift(a, b, t) ==
  LET hi   == a \div Pow2(HalfBits)
      lo   == a % Pow2(HalfBits)
      top  == hi * b + ((lo * b) \div Pow2(HalfBits))
      frac == (lo * b) % Pow2(HalfBits)
  IN  <<top \div Pow2(t - HalfBits),
        (top % Pow2(t - HalfBits)) * Pow2(HalfBits) + frac>>

\* round to nearest, ties to even, of q + r/c
RoundHalfEven(q, r, c) ==
  IF 2 * r > c \/ (2 * r = c /\ q % 2 = 1) THEN q + 1 ELSE q

(***************************************************************************)
(* float32 values.  A positive float32 is <<m, s>>, standing for m / 2^s   *)
(* with 2^23 <= m < 2^24; zero is <<0, 0>>.                                *)
(***************************************************************************)
FZero == <<0, 0>>

Renorm(m, s) == IF m = Pow2(MantBits + 1) THEN <<Pow2(MantBits), s - 1>> ELSE <<m, s>>

RECURSIVE ShiftUp(_, _, _)
\* the least k >= from with a * 2^k >= lo
ShiftUp(a, lo, from) == IF a * Pow2(from) >= lo THEN from ELSE ShiftUp(a, lo, from + 1)

\* float32(pixelInt) / 255.0 for a raw intensity 0..255 (correctly rounded)
Float32Div255(p) ==
  IF p = 0 THEN FZero
  ELSE LET k  == ShiftUp(p, PixelScale, 0)
           r  == p * Pow2(k) - PixelScale
           qr == MulDiv(r, Pow2(MantBits), PixelScale)
           m  == Pow2(MantBits) + RoundHalfEven(qr[1], qr[2], PixelScale)
       IN  Renorm(m, MantBits + k)

\* fmt.Sprintf("%.6f", f): the decimal text with six fraction digits, held as
\* the integer number of millionths it denotes
FormatF6(f) ==
  IF f = FZero THEN 0
  ELSE LET c  == Pow2(f[2] - 6)
           qr == MulShift(f[1], 15625, f[2] - 6)
       IN  RoundHalfEven(qr[1], qr[2], c)

\* the FLOAT32 vector element the index holds for a JSON number of d millionths
Float32OfDecimal(d) ==
  IF d = 0 THEN FZero
  ELSE LET k  == ShiftUp(d, 1000000, 0)
           qr == MulDiv(d * Pow2(k), Pow2(MantBits - 6), 15625)
           m  == RoundHalfEven(qr[1], qr[2], 15625)
       IN  Renorm(m, MantBits + k)

\* StoreData's text for one pixel: "0" for 0, else "%.6f" of float32(p)/255.0
StorePixel(p) == IF p = 0 THEN 0 ELSE FormatF6(Float32Div255(p))

\* SearchData's query element for one pixel
QueryPixel(p) == Float32Div255(p)

(***************************************************************************)
(* Text.  A string is a sequence of one-character strings.                 *)
(***************************************************************************)
DigitChars == <<"0", "1", "2", "3", "4", "5", "6", "7", "8", "9">>

DigitVal(c) == CHOOSE d \in 0..9 : DigitChars[d + 1] = c

IsDigit(c) == \E d \in 0..9 : DigitChars[d + 1] = c

RECURSIVE NatStr(_)
NatStr(n) == IF n < 10 THEN <<DigitChars[n + 1]>>
             ELSE NatStr(n \div 10) \o <<DigitChars[(n % 10) + 1]>>

\* fmt's %d
IntStr(n) == IF n < 0 THEN <<"-">> \o NatStr(-n) ELSE NatStr(n)

RECURSIVE DigitsVal(_, _)
DigitsVal(s, acc) == IF s = <<>> THEN acc
                     ELSE DigitsVal(Tail(s), 10 * acc + DigitVal(Head(s)))

\* strconv.Atoi: an optional sign, then one or more decimal digits
Atoi(s) ==
  LET signed == s # <<>> /\ Head(s) \in {"-", "+"}
      ds     == IF signed THEN Tail(s) ELSE s
      ok     == ds # <<>> /\ \A j \in 1..Len(ds) : IsDigit(ds[j])
  IN  IF ~ok THEN [ok |-> FALSE, val |-> 0]
      ELSE [ok |-> TRUE,
            val |-> IF signed /\ Head(s) = "-" THEN -DigitsVal(ds, 0) ELSE DigitsVal(ds, 0)]

\* the positions of the separator in s
SepPos(s, sep) == {j \in 1..Len(s) : s[j] = sep}

\* strings.Split(s, sep) for a one-character separator: the segments between
\* consecutive separators, empty ones included
Split(s, sep) ==
  LET P         == SepPos(s, sep)
      Before(j) == Cardinality({q \in P : q < j})
      Nth(n)    == CHOOSE q \in P : Before(q) = n - 1
      From(n)   == IF n = 1 THEN 1 ELSE Nth(n - 1) + 1
      To(n)     == IF n = Cardinality(P) + 1 THEN Len(s) ELSE Nth(n) - 1
  IN  [n \in 1..(Cardinality(P) + 1) |-> SubSeq(s, From(n), To(n))]

(***************************************************************************)
(* Errors.                                                                 *)
(***************************************************************************)
Nil == "nil"
ErrOpen == "open: no such file"
ErrFieldCount == "csv: wrong number of fields"
ErrSyntax == "strconv.Atoi: invalid syntax"
ErrBackend == "redis: backend failure"
ErrIndexExists == "Index already exists"
ErrFormat == "unexpected result format"
PanicIndex == "index out of range [1] with length 1"
PanicDivide == "integer divide by zero"

(***************************************************************************)
(* The CSV files.                                                          *)
(***************************************************************************)
\* csv.Reader.ReadAll with FieldsPerRecord = 0: every record must have as many
\* fields as the first one
ReadAll(file) ==
  IF \E j \in 1..Len(file) : Len(file[j]) # Len(file[1])
  THEN [err |-> ErrFieldCount, records |-> <<>>]
  ELSE [err |-> Nil, records |-> file]

SeqsUpTo(S, lo, hi) == UNION {[1..n -> S] : n \in lo..hi}

TrainLabelFields == {<<"7">>, <<"-", "1", "2">>, <<"x">>}
TrainPixelFields == {<<"5", "1">>, <<"x">>}
TestLabelFields == {<<"7">>}
TestPixelFields == {<<"0">>, <<"x">>}

Rows(labels, pixels) ==
  {<<l>> \o ps : l \in labels, ps \in SeqsUpTo(pixels, Dim - 1, Dim)}

TrainFiles == SeqsUpTo(Rows(TrainLabelFields, TrainPixelFields), 0, MaxTrainRows)
TestFiles == SeqsUpTo(Rows(TestLabelFields, TestPixelFields), 0, MaxTestRows)

\* per-query latencies of the FT.SEARCH call, in milliseconds
Durations == {5, 1000000}

(***************************************************************************)
(* The Store (Redis keyspace under the prefix "number:") and its index.    *)
(***************************************************************************)
KeyPrefix == <<"n", "u", "m", "b", "e", "r", ":">>

\* fmt.Sprintf("number:%d:%d", i, result)
MakeKey(idx, result) == KeyPrefix \o IntStr(idx) \o <<":">> \o IntStr(result)

\* the JSON document {"result": %d, "embedding": [%s]}
JsonData(result, pixelInts) ==
  [result |-> result,
   embedding |-> [j \in 1..Len(pixelInts) |-> StorePixel(pixelInts[j])]]

\* JSON.SET key $ doc
JsonSet(st, key, doc) ==
  [k \in DOMAIN st \cup {key} |-> IF k = key THEN doc ELSE st[k]]

EmptyStore == [k \in {} |-> 0]

\* the documents mnist_index holds: a FLAT FLOAT32 vector field of DIM Dim
\* indexes only the documents whose $.embedding has exactly Dim elements
Indexed(st) == {k \in DOMAIN st : Len(st[k].embedding) = Dim}

\* DecodeKey reading the segment after the prefix (the row index) instead of
\* the last one
DecodeKey_idx(key) ==
  LET parts == Split(key, ":") IN Atoi(parts[2])

\* the last ':'-separated segment of a key, parsed
DecodeKey(key) ==
  LET parts == Split(key, ":") IN Atoi(parts[Len(parts)])

PixelInts(record) == [j \in 1..(Len(record) - 1) |-> Atoi(record[j + 1]).val]

RowNumeric(record) == \A j \in 1..Len(record) : Atoi(record[j]).ok

\* what an earlier run of this program left in the Store
RECURSIVE StoreAll(_, _, _)
StoreAll(st, rows, idx) ==
  IF idx > Len(rows) THEN st
  ELSE StoreAll(JsonSet(st, MakeKey(idx - 1, Atoi(rows[idx][1]).val),
                        JsonData(Atoi(rows[idx][1]).val, PixelInts(rows[idx]))),
                rows, idx + 1)

PriorRow(l) == <<l>> \o [j \in 1..Dim |-> <<"5", "1">>]

PriorStores ==
  {EmptyStore, StoreAll(EmptyStore, <<PriorRow(<<"-", "1", "2">>)>>, 1)}

VARIABLES
  pc,             \* main's position
  err,            \* the error the last call returned to main
  panicMsg,       \* the runtime panic that ended the process
  store,          \* the Redis keyspace under "number:"
  indexExists,    \* mnist_index exists
  records,        \* the rows ReadAll returned to the running function
  i,              \* the loop index of the running function
  minDuration, maxDuration, totalDuration,
  correctGuess, wrongGuess,
  reply,          \* the last FT.SEARCH reply
  tests,          \* the "Test image" lines printed: expected, found, ms
  summary,        \* the numbers of the summary lines printed so far
  store0,         \* the Store at the start of the run
  inserted,       \* the keys this run's JSON.SET wrote
  nTrain,         \* the rows of the training set read
  nSet,           \* JSON.SET commands issued
  nSearch,        \* FT.SEARCH commands issued
  px, stored, queried

mainVars == <<pc, err, panicMsg, store, indexExists, records, i, minDuration,
              maxDuration, totalDuration, correctGuess, wrongGuess, reply,
              tests, summary, store0, inserted, nTrain, nSet, nSearch>>
normVars == <<px, stored, queried>>
vars == <<mainVars, normVars>>

storeVars == <<store, indexExists, store0, inserted, nTrain, nSet>>
searchVars == <<minDuration, maxDuration, totalDuration, correctGuess, wrongGuess,
                reply, tests, summary, nSearch>>

Init ==
  /\ pc = "main"
  /\ err = Nil
  /\ panicMsg = None
  /\ store \in PriorStores
  /\ store0 = store
  /\ indexExists \in (IF store = EmptyStore THEN BOOLEAN ELSE {TRUE})
  /\ records = <<>>
  /\ i = 0
  /\ minDuration = 0 /\ maxDuration = 0 /\ totalDuration = 0
  /\ correctGuess = 0 /\ wrongGuess = 0
  /\ reply = [kind |-> "none", items |-> <<>>]
  /\ summary = <<>>
  /\ tests = <<>>
  /\ inserted = {}
  /\ nTrain = 0
  /\ nSet = 0
  /\ nSearch = 0
  /\ px = 0 /\ stored = NoValue /\ queried = NoValue

(***************************************************************************)
(* main, lines 228-250: reset the statistics, FT.CREATE.                   *)
(***************************************************************************)
MainCreateIndex ==
  /\ pc = "main"
  /\ minDuration' = InitMinDuration
  /\ maxDuration' = InitMaxDuration
  /\ totalDuration' = 0
  /\ \/ /\ ~indexExists
        /\ indexExists' = TRUE
        /\ err' = Nil
        /\ pc' = "StoreData"
     \/ /\ indexExists
        /\ err' = ErrIndexExists
        /\ pc' = "StoreData"
        /\ UNCHANGED indexExists
     \/ /\ err' = ErrBackend
        /\ pc' = "exit_create"
        /\ UNCHANGED indexExists
  /\ UNCHANGED <<panicMsg, store, records, i, correctGuess, wrongGuess, reply,
                 tests, summary, store0, inserted, nTrain, nSet, nSearch, normVars>>

(***************************************************************************)
(* StoreData.                                                              *)
(***************************************************************************)
\* lines 40-53: open and read mnist_train.csv
StoreOpen ==
  /\ pc = "StoreData"
  /\ \/ /\ err' = ErrOpen
        /\ pc' = "StoreData_ret"
        /\ UNCHANGED <<records, nTrain>>
     \/ \E file \in TrainFiles :
          LET r == ReadAll(file) IN
          IF r.err # Nil
          THEN /\ err' = r.err
               /\ pc' = "StoreData_ret"
               /\ UNCHANGED <<records, nTrain>>
          ELSE /\ records' = r.records
               /\ nTrain' = Len(r.records)
               /\ pc' = "StoreData_loop"
               /\ UNCHANGED err
  /\ i' = 0
  /\ UNCHANGED <<panicMsg, store, indexExists, store0, inserted, nSet,
                 searchVars, normVars>>

\* lines 56-93: one iteration of the loop over the rows
StoreRow ==
  /\ pc = "StoreData_loop"
  /\ i < Len(records)
  /\ LET record == records[i + 1]
         result == Atoi(record[1])
         key    == MakeKey(i, result.val)
     IN  IF ~RowNumeric(record)
         THEN /\ err' = ErrSyntax
              /\ pc' = "StoreData_ret"
              /\ records' = <<>>
              /\ i' = 0
              /\ UNCHANGED <<store, inserted, nSet>>
         ELSE /\ nSet' = nSet + 1
              /\ \/ /\ store' = JsonSet(store, key, JsonData(result.val, PixelInts(record)))
                    /\ inserted' = inserted \cup {key}
                    /\ i' = i + 1
                    /\ UNCHANGED <<err, pc, records>>
                 \/ /\ err' = ErrBackend
                    /\ pc' = "StoreData_ret"
                    /\ records' = <<>>
                    /\ i' = 0
                    /\ UNCHANGED <<store, inserted>>
  /\ UNCHANGED <<panicMsg, indexExists, store0, nTrain, searchVars, normVars>>

\* lines 95-96: every row is stored
StoreDone ==
  /\ pc = "StoreData_loop"
  /\ i = Len(records)
  /\ err' = Nil
  /\ pc' = "StoreData_ret"
  /\ records' = <<>>
  /\ i' = 0
  /\ UNCHANGED <<panicMsg, storeVars, searchVars, normVars>>

\* MainAfterStore without the exit on a failed ingestion
MainAfterStore_noexit ==
  /\ pc = "StoreData_ret"
  /\ pc' = "SearchData"
  /\ UNCHANGED <<err, panicMsg, records, i, storeVars, searchVars, normVars>>

\* main, lines 252-256
MainAfterStore ==
  /\ pc = "StoreData_ret"
  /\ pc' = IF err # Nil THEN "exit_store" ELSE "SearchData"
  /\ UNCHANGED <<err, panicMsg, records, i, storeVars, searchVars, normVars>>


(***************************************************************************)
(* SearchData.                                                             *)
(***************************************************************************)
\* lines 101-117: open and read mnist_test.csv, reset the counters
SearchOpen ==
  /\ pc = "SearchData"
  /\ \/ /\ err' = ErrOpen
        /\ pc' = "SearchData_ret"
        /\ UNCHANGED <<records, correctGuess, wrongGuess>>
     \/ \E file \in TestFiles :
          LET r == ReadAll(file) IN
          IF r.err # Nil
          THEN /\ err' = r.err
               /\ pc' = "SearchData_ret"
               /\ UNCHANGED <<records, correctGuess, wrongGuess>>
          ELSE /\ records' = r.records
               /\ correctGuess' = 0
               /\ wrongGuess' = 0
               /\ pc' = "SearchData_loop"
               /\ UNCHANGED err
  /\ i' = 0
  /\ UNCHANGED <<panicMsg, storeVars, minDuration, maxDuration, totalDuration,
                 reply, tests, summary, nSearch, normVars>>

\* convertFloat32ArrayToBlob: four little-endian bytes per element
BlobLen(embedding) == 4 * Len(embedding)

\* what the backend can answer to FT.SEARCH mnist_index "*=>[KNN 1 ...]": a
\* failure, or the total count followed by the key of the nearest document
SearchReplies(st, blobLen) ==
  {[kind |-> "error", items |-> <<>>]} \cup
  (IF blobLen # BlobLen([j \in 1..Dim |-> FZero]) THEN {}
   ELSE IF Indexed(st) = {} THEN {[kind |-> "array", items |-> <<0>>]}
   ELSE {[kind |-> "array", items |-> <<1, k>>] : k \in Indexed(st)})

\* searchVectorInRedis, lines 204-224, on the reply and the measured latency
searchVectorInRedis(rep, duration) ==
  IF rep.kind = "error"
  THEN [label |-> 0, duration |-> 0, err |-> ErrBackend, panic |-> None]
  ELSE IF Len(rep.items) = 0
  THEN [label |-> 0, duration |-> 0, err |-> ErrFormat, panic |-> None]
  ELSE IF Len(rep.items) < 2
  THEN [label |-> 0, duration |-> 0, err |-> Nil, panic |-> PanicIndex]
  ELSE LET parsed == DecodeKey(rep.items[2])
       IN  IF ~parsed.ok
           THEN [label |-> 0, duration |-> 0, err |-> ErrSyntax, panic |-> None]
           ELSE [label |-> parsed.val, duration |-> duration, err |-> Nil, panic |-> None]

\* RowOutcome without the early return on a failed search
RowOutcome_noreturn(res) ==
  IF res.panic # None THEN "panic" ELSE "count"

\* lines 142-145: what SearchData does with searchVectorInRedis's result
RowOutcome(res) ==
  IF res.panic # None THEN "panic"
  ELSE IF res.err # Nil THEN "return"
  ELSE "count"

\* lines 119-160: one iteration of the loop over the test rows
SearchRow ==
  /\ pc = "SearchData_loop"
  /\ i < Len(records)
  /\ LET record    == records[i + 1]
         expected  == Atoi(record[1]).val
         embedding == [j \in 1..(Len(record) - 1) |-> QueryPixel(PixelInts(record)[j])]
     IN  IF ~RowNumeric(record)
         THEN /\ err' = ErrSyntax
              /\ pc' = "SearchData_ret"
              /\ UNCHANGED <<panicMsg, i, minDuration, maxDuration, totalDuration,
                             correctGuess, wrongGuess, reply, tests, nSearch>>
         ELSE \E rep \in SearchReplies(store, BlobLen(embedding)), duration \in Durations :
                LET res == searchVectorInRedis(rep, duration) IN
                /\ nSearch' = nSearch + 1
                /\ reply' = rep
                /\ CASE RowOutcome(res) = "panic" ->
                          /\ panicMsg' = res.panic
                          /\ pc' = "panic"
                          /\ UNCHANGED <<err, i, minDuration, maxDuration, totalDuration,
                                         correctGuess, wrongGuess, tests>>
                     [] RowOutcome(res) = "return" ->
                          /\ err' = res.err
                          /\ pc' = "SearchData_ret"
                          /\ UNCHANGED <<panicMsg, i, minDuration, maxDuration,
                                         totalDuration, correctGuess, wrongGuess, tests>>
                     [] RowOutcome(res) = "count" ->
                          /\ minDuration' = IF res.duration < minDuration
                                            THEN res.duration ELSE minDuration
                          /\ maxDuration' = IF res.duration > maxDuration
                                            THEN res.duration ELSE maxDuration
                          /\ totalDuration' = totalDuration + res.duration
                          /\ tests' = Append(tests, [expected |-> expected,
                                                     found |-> res.label,
                                                     ms |-> res.duration])
                          /\ IF expected = res.label
                             THEN correctGuess' = correctGuess + 1 /\ UNCHANGED wrongGuess
                             ELSE wrongGuess' = wrongGuess + 1 /\ UNCHANGED correctGuess
                          /\ i' = i + 1
                          /\ UNCHANGED <<err, pc, panicMsg>>
  /\ UNCHANGED <<records, storeVars, summary, normVars>>

\* Accuracy rounding to the nearest percent instead of truncating
Accuracy_nearest(correct, wrong) ==
  GoDiv(100 * correct + GoDiv(wrong + correct, 2), wrong + correct)

\* line 163
Accuracy(correct, wrong) == GoDiv(100 * correct, wrong + correct)

\* line 166
AverageDuration(total, n) == GoDiv(total, n)

\* lines 161-168: the summary
SearchDone ==
  /\ pc = "SearchData_loop"
  /\ i = Len(records)
  /\ IF wrongGuess + correctGuess = 0
     THEN /\ summary' = <<correctGuess, wrongGuess>>
          /\ panicMsg' = PanicDivide
          /\ pc' = "panic"
          /\ UNCHANGED err
     ELSE /\ summary' = <<correctGuess, wrongGuess, Accuracy(correctGuess, wrongGuess),
                          minDuration, maxDuration,
                          AverageDuration(totalDuration, Len(records))>>
          /\ err' = Nil
          /\ pc' = "SearchData_ret"
          /\ UNCHANGED panicMsg
  /\ UNCHANGED <<records, i, storeVars, minDuration, maxDuration, totalDuration,
                 correctGuess, wrongGuess, reply, tests, nSearch, normVars>>

\* main, lines 258-262
MainAfterSearch ==
  /\ pc = "SearchData_ret"
  /\ pc' = IF err # Nil THEN "exit_search" ELSE "done"
  /\ UNCHANGED <<err, panicMsg, records, i, storeVars, searchVars, normVars>>

Next ==
  \/ MainCreateIndex
  \/ StoreOpen
  \/ StoreRow
  \/ StoreDone
  \/ MainAfterStore
  \/ SearchOpen
  \/ SearchRow
  \/ SearchDone
  \/ MainAfterSearch

Spec == Init /\ [][Next]_vars

(***************************************************************************)
(* The two normalisation paths, applied to every raw intensity.            *)
(***************************************************************************)
InitNorm ==
  /\ px \in 0..PixelScale
  /\ stored = NoValue
  /\ queried = NoValue
  /\ pc = "main"
  /\ err = Nil
  /\ panicMsg = None
  /\ store = EmptyStore
  /\ store0 = store
  /\ indexExists = FALSE
  /\ records = <<>>
  /\ i = 0
  /\ minDuration = 0 /\ maxDuration = 0 /\ totalDuration = 0
  /\ correctGuess = 0 /\ wrongGuess = 0
  /\ reply = [kind |-> "none", items |-> <<>>]
  /\ summary = <<>>
  /\ tests = <<>>
  /\ inserted = {}
  /\ nTrain = 0
  /\ nSet = 0
  /\ nSearch = 0

\* the element the index holds for the pixel StoreData wrote (lines 74-79)
NormStore ==
  /\ stored = NoValue
  /\ stored' = Float32OfDecimal(StorePixel(px))
  /\ UNCHANGED <<px, queried, mainVars>>

\* the element SearchData puts in the query vector (line 137)
NormQuery ==
  /\ queried = NoValue
  /\ queried' = QueryPixel(px)
  /\ UNCHANGED <<px, stored, mainVars>>

NextNorm == NormStore \/ NormQuery

SpecNorm == InitNorm /\ [][NextNorm]_vars

(***************************************************************************)
(* Properties.                                                             *)
(***************************************************************************)
RECURSIVE SeqSum(_)
SeqSum(q) == IF q = <<>> THEN 0 ELSE Head(q) + SeqSum(Tail(q))

SeqMin(q) == CHOOSE m \in {q[j] : j \in 1..Len(q)} : \A j \in 1..Len(q) : m <= q[j]

SeqMax(q) == CHOOSE m \in {q[j] : j \in 1..Len(q)} : \A j \in 1..Len(q) : m >= q[j]

Latencies == [j \in 1..Len(tests) |-> tests[j].ms]

\* StoreData has returned nil and main has gone on to the query phase
Ingested == pc \in {"SearchData", "SearchData_loop", "SearchData_ret", "exit_search",
                    "done", "panic"}

\* the complete summary has been printed
Reported == Len(summary) = 6

\* C1: the ingest phase and the query phase never overlap: by the time the
\* first FT.SEARCH is issued StoreData has returned without error having issued
\* one successful JSON.SET per row of the training set, no JSON.SET is issued
\* while or after a FT.SEARCH is, and the Store never changes afterwards.
C1_PhasesDoNotOverlap ==
  /\ [](nSearch > 0 => /\ Ingested
                       /\ nSet = nTrain
                       /\ Cardinality(inserted) = nTrain)
  /\ [][nSet' # nSet => nSearch = 0 /\ nSearch' = 0]_vars
  /\ [][nSearch > 0 => store' = store /\ inserted' = inserted]_vars

\* a search has been issued after a training set of two rows was ingested
C1_Witness == nSearch > 0 /\ nTrain = 2 /\ nSet = 2

\* C2: when StoreData aborts on a malformed row the Store is what it was
\* before StoreData was called.
C2_NoPartialIngestion ==
  (pc \in {"StoreData_ret", "exit_store"} /\ err = ErrSyntax) =>
    (store = store0 /\ inserted = {})

\* C3: no record whose embedding length differs from the index dimension is
\* ever inserted into the Store.
C3_InsertedHaveDim ==
  \A k \in inserted : Len(store[k].embedding) = Dim

\* C4: when searchVectorInRedis returns an error for a query, SearchData
\* returns that error at once: the query is counted neither correct nor wrong,
\* the latency statistics are untouched, and from then on no further search is
\* issued, no summary is printed and main exits with status 1.
C4_SearchFailureAborts ==
  /\ [][(nSearch' # nSearch /\ searchVectorInRedis(reply', 0).err # Nil) =>
          /\ err' = searchVectorInRedis(reply', 0).err
          /\ pc' = "SearchData_ret"
          /\ correctGuess' = correctGuess /\ wrongGuess' = wrongGuess
          /\ minDuration' = minDuration /\ maxDuration' = maxDuration
          /\ totalDuration' = totalDuration
          /\ tests' = tests]_vars
  /\ [][(pc = "SearchData_ret" /\ err # Nil) =>
          /\ pc' = "exit_search"
          /\ nSearch' = nSearch
          /\ summary' = <<>>]_vars
  /\ [](pc = "exit_search" => summary = <<>>)

\* a search failed after one query had been counted, and the run was aborted
C4_Witness ==
  /\ pc = "exit_search"
  /\ err = ErrBackend
  /\ reply.kind = "error"
  /\ Len(tests) = 1
  /\ nSearch = 2

\* C5: a search against an empty index (the reply holds only the count 0) is
\* reported to the caller as an error and does not end the process in a panic.
C5_EmptyIndexIsAnError ==
  (reply.kind = "array" /\ Len(reply.items) = 1) =>
    (panicMsg = None /\ pc \in {"SearchData_ret", "exit_search"} /\ err # Nil)

\* C6: in the summary of a run over n >= 1 queries, correct + wrong = n, correct
\* is the number of queries whose predicted label equals the expected one, and
\* the accuracy is floor(100 * correct / (correct + wrong)); 9 and 1 give 90,
\* 9691 and 309 give 96.
C6_AccuracyReport ==
  /\ (Reported /\ Len(records) >= 1) =>
       /\ summary[1] + summary[2] = Len(records)
       /\ summary[1] = Cardinality({j \in 1..Len(tests) : tests[j].found = tests[j].expected})
       /\ summary[2] = Cardinality({j \in 1..Len(tests) : tests[j].found # tests[j].expected})
       /\ 100 * summary[1] >= summary[3] * (summary[1] + summary[2])
       /\ 100 * summary[1] < (summary[3] + 1) * (summary[1] + summary[2])
  /\ Accuracy(9, 1) = 90
  /\ Accuracy(9691, 309) = 96

\* a summary with two correct guesses out of three: 66 percent, truncated
C6_Witness == Reported /\ summary[1] = 2 /\ summary[2] = 1 /\ summary[3] = 66

\* C7: in the summary of a run over n >= 1 queries the minimum, maximum and
\* average are those of the per-query latencies, whatever their magnitude.
C7_LatencyReport ==
  (Reported /\ Len(records) >= 1) =>
    /\ summary[4] = SeqMin(Latencies)
    /\ summary[5] = SeqMax(Latencies)
    /\ summary[6] = SeqSum(Latencies) \div Len(Latencies)
    /\ summary[4] <= summary[6] /\ summary[6] <= summary[5]

\* C8: once ingestion has succeeded, the Store holds exactly the records this
\* run inserted, one per row of its training set.
C8_CorpusIsThisRun ==
  Ingested => (DOMAIN store = inserted /\ Cardinality(DOMAIN store) = nTrain)

\* C9: for every raw intensity, the vector element held for the value
\* StoreData wrote equals the element SearchData computes.
C9_SameNormalisation ==
  (stored # NoValue /\ queried # NoValue) => stored = queried

\* the labels and row indices of the key round trip checked outright
MaxKeyIndex == 11
MaxLabel == 12

KeyRoundTrip ==
  \A idx \in 0..MaxKeyIndex, r \in (-MaxLabel)..MaxLabel :
    DecodeKey(MakeKey(idx, r)) = [ok |-> TRUE, val |-> r]

\* C10: the key StoreData writes for row i with label r decodes back to r, so
\* every key of the Store decodes to the "result" field of its record and the
\* label printed as found is the "result" of the record the search returned.
C10_KeyCarriesLabel ==
  /\ KeyRoundTrip
  /\ \A k \in DOMAIN store : DecodeKey(k) = [ok |-> TRUE, val |-> store[k].result]
  /\ (reply.kind = "array" /\ Len(reply.items) = 2) =>
       /\ Len(tests) = nSearch
       /\ tests[Len(tests)].found = store[reply.items[2]].result

\* the search returned a record labelled -12, stored by this run at row 1
C10_Witness ==
  /\ reply.kind = "array" /\ Len(reply.items) = 2
  /\ reply.items[2] = MakeKey(1, -12)
  /\ reply.items[2] \in inserted
  /\ tests[Len(tests)].found = -12
====
